---- MODULE Spec2Model ----
(***************************************************************************)
(* A model of the lecture RAG pipeline: the in-memory vector store         *)
(* (src/src/storage/vector_store.py), the store selection                  *)
(* (get_vector_store, LectureProcessor), the text chunker                  *)
(* (TextProcessor.process) and the two workflows (DocumentWorkflow,        *)
(* QAWorkflow).                                                            *)
(*                                                                         *)
(* A text is a sequence of one-character strings.  A vector is a tuple of  *)
(* integers (every such value is an exact float).  A similarity score is   *)
(* kept as the exact quotient the code computes, see cosine.               *)
(***************************************************************************)
EXTENDS Integers, Sequences, FiniteSets, TLC

VARIABLES
    texts,        \* SimpleVectorStore.texts
    embeddings,   \* SimpleVectorStore.embeddings
    call,         \* the most recent call on the store: its name, arguments and return value
    added,        \* <<t, e>> when the most recent call was add_texts([t], [e]), else None
    supplied,     \* history: the (text, vector) pairs the add_texts calls supplied together
    paired,       \* history: every add_texts call so far got as many vectors as texts
    tp,           \* a TextProcessor.process call: its text, the configuration and what it returned
    callers,      \* per thread sharing the store: the store method it is in, where in it, its locals
    hist,         \* history of the concurrent calls: what they overlapped with and what they saw
    pc,           \* "new" before LectureProcessor(), "idle" between calls, else the graph node to run next
    store,        \* LectureProcessor.store: which store get_vector_store returned
    dw_store,     \* DocumentWorkflow.store
    qa_store,     \* QAWorkflow.store
    remote,       \* the Weaviate side: construction attempts, their outcome, the collection's objects
    state,        \* the state dict of the graph being invoked
    run           \* history of the current (or last) process_document / ask_question call

store_vars == <<texts, embeddings, call, added, supplied, paired>>

app_vars == <<pc, store, dw_store, qa_store, remote, state, run>>

conc_vars == <<callers, hist>>

vars == <<store_vars, tp, conc_vars, app_vars>>

\* no value (Python's None), where a tuple may stand
None == <<>>

\* ------------------------------------------------------------------ bounds
MaxStore == 2     \* add_texts is not called once the store holds this many entries
MaxTextLen == 5   \* longest text enumerated for the chunker
MaxWindow == 3    \* largest chunk size enumerated for the chunker, besides CHUNK_SIZE

\* ------------------------------------------------------------------ inputs
Texts == {<<"a">>, <<"b">>}

\* the zero vector, parallel vectors of different norm, orthogonal, opposite
\* and oblique vectors
Vectors == {<<0, 0>>, <<1, 0>>, <<2, 0>>, <<-1, 0>>, <<1, 1>>}

\* the lengths of the lists handed to one add_texts call
BatchSizes == {0, 1, 2}

\* the counts asked of similarity_search: none, fewer than, as many as and
\* more than the store holds, and the default
Ks == {0, 1, 2, 4}

SeqsOf(S, lens) == UNION {[1..m -> S] : m \in lens}

Min(a, b) == IF a <= b THEN a ELSE b

\* ------------------------------------------------------------------ numpy
RECURSIVE dot(_, _)
dot(u, v) ==
    IF u = <<>> \/ v = <<>> THEN 0
    ELSE Head(u) * Head(v) + dot(Tail(u), Tail(v))

NaN == [num |-> 0, nn |-> 0, eps |-> FALSE, nan |-> TRUE]

\* x / (norm_q * norm_e + 1e-10) as the exact quotient: num / (sqrt(nn) + 1e-10)
\* with nn = (q.q) * (e.e).  A zero denominator gives numpy's nan.
divide(x, nn, eps) ==
    IF nn = 0 /\ ~eps THEN NaN ELSE [num |-> x, nn |-> nn, eps |-> eps, nan |-> FALSE]

cosine_no_eps(q, e) == divide(dot(q, e), dot(q, q) * dot(e, e), FALSE)

cosine(q, e) == divide(dot(q, e), dot(q, q) * dot(e, e), TRUE)

\* The order of two scores as floats.  For positive numerators
\*   a < b  <=>  sqrt(a.num^2 * b.nn) - sqrt(b.num^2 * a.nn) < (b.num - a.num) * 1e-10
\* and with integer vectors of this size the left side is 0 or far above
\* 1e-10 in magnitude, so the squares decide unless they are equal, and
\* then the numerators do (the 1e-10 weighs less on a larger norm).
PosLess(a, b) ==
    LET A == a.num * a.num * b.nn
        B == b.num * b.num * a.nn
    IN  IF A # B THEN A < B ELSE a.eps /\ a.num < b.num

Neg(a) == [a EXCEPT !.num = -a.num]

ScoreLess(a, b) ==
    IF a.nan \/ b.nan THEN FALSE
    ELSE IF a.num <= 0 /\ b.num > 0 THEN TRUE
    ELSE IF a.num < 0 /\ b.num = 0 THEN TRUE
    ELSE IF a.num > 0 /\ b.num > 0 THEN PosLess(a, b)
    ELSE IF a.num < 0 /\ b.num < 0 THEN PosLess(Neg(b), Neg(a))
    ELSE FALSE

\* the float is 0.0
IsZero(s) == ~s.nan /\ s.num = 0

\* the float is within 1e-9 of 1.0: the cosine is exactly 1 and the norms
\* are at least 1, so the score is at least 1 / (1 + 1e-10)
ApproxOne(s) == ~s.nan /\ s.num > 0 /\ s.num * s.num = s.nn

\* ------------------------------------------------------------------ list.sort
\* scores.sort(key=lambda x: x[1], reverse=True): stable, so entries of equal
\* score keep their order
RECURSIVE insert_desc(_, _)
insert_desc(sorted, x) ==
    IF sorted = <<>> THEN <<x>>
    ELSE IF ScoreLess(Head(sorted)[2], x[2]) THEN <<x>> \o sorted
    ELSE <<Head(sorted)>> \o insert_desc(Tail(sorted), x)

RECURSIVE sort_desc(_)
sort_desc(s) ==
    IF s = <<>> THEN <<>>
    ELSE insert_desc(sort_desc(SubSeq(s, 1, Len(s) - 1)), s[Len(s)])

\* s[:k] for k >= 0
slice_to(s, k) == SubSeq(s, 1, Min(k, Len(s)))

\* ------------------------------------------------------------------ SimpleVectorStore
similarity_search_no_sort(txts, embs, q, k) ==
    IF embs = <<>> THEN <<>>
    ELSE slice_to([i \in 1..Min(Len(txts), Len(embs)) |-> <<txts[i], cosine(q, embs[i])>>], k)

similarity_search_no_eps(txts, embs, q, k) ==
    IF embs = <<>> THEN <<>>
    ELSE slice_to(sort_desc([i \in 1..Min(Len(txts), Len(embs)) |->
                                <<txts[i], cosine_no_eps(q, embs[i])>>]), k)

RECURSIVE reverse(_)
reverse(s) == IF s = <<>> THEN <<>> ELSE reverse(Tail(s)) \o <<Head(s)>>

similarity_search_ascending(txts, embs, q, k) ==
    IF embs = <<>> THEN <<>>
    ELSE slice_to(reverse(sort_desc([i \in 1..Min(Len(txts), Len(embs)) |->
                                        <<txts[i], cosine(q, embs[i])>>])), k)

similarity_search(txts, embs, q, k) ==
    IF embs = <<>> THEN <<>>
    ELSE LET scores == [i \in 1..Min(Len(txts), Len(embs)) |->
                            <<txts[i], cosine(q, embs[i])>>]   \* zip stops at the shorter list
         IN  slice_to(sort_desc(scores), k)

add_texts_prepend(ts, es) ==
    /\ texts' = texts \o ts
    /\ embeddings' = es \o embeddings

add_texts(ts, es) ==
    /\ texts' = texts \o ts
    /\ embeddings' = embeddings \o es

\* zip(ts, es)
zip(ts, es) == [i \in 1..Min(Len(ts), Len(es)) |-> <<ts[i], es[i]>>]

\* ------------------------------------------------------------------ config.py
CHUNK_SIZE == 1000
CHUNK_OVERLAP == 200

\* ------------------------------------------------------------------ TextProcessor
Whitespace == {" ", "\n", "\t"}

\* str.strip()
RECURSIVE strip(_)
strip(s) ==
    IF s = <<>> THEN s
    ELSE IF Head(s) \in Whitespace THEN strip(Tail(s))
    ELSE IF s[Len(s)] \in Whitespace THEN strip(SubSeq(s, 1, Len(s) - 1))
    ELSE s

\* utils.helpers.chunk_text: windows of `size` characters, each starting
\* size - overlap characters after the one before, up to the window that
\* reaches the end of the text
RECURSIVE windows_from(_, _, _, _)
windows_from(text, size, overlap, start) ==
    IF start >= Len(text) THEN <<>>
    ELSE LET end == Min(start + size, Len(text))
         IN  <<SubSeq(text, start + 1, end)>> \o
             (IF end = Len(text) THEN <<>>
              ELSE windows_from(text, size, overlap, start + size - overlap))

chunk_text(text, size, overlap) == windows_from(text, size, overlap, 0)

\* [t.strip() for t in ts if t.strip()]
RECURSIVE strip_nonempty(_)
strip_nonempty(ts) ==
    IF ts = <<>> THEN <<>>
    ELSE (IF strip(Head(ts)) # <<>> THEN <<strip(Head(ts))>> ELSE <<>>)
         \o strip_nonempty(Tail(ts))

process_no_overlap(text, size, overlap) == strip_nonempty(chunk_text(text, size, 0))

\* TextProcessor.process, with the two configuration values as parameters
process(text, size, overlap) == strip_nonempty(chunk_text(text, size, overlap))

\* 'a' * 1500 of test_text_processor_chunks
LongText == [i \in 1..1500 |-> "a"]

ChunkTexts == SeqsOf({"a", "b", " "}, 0..MaxTextLen)

\* <<size, overlap>> with overlap < size
ChunkConfigs ==
    {c \in (1..MaxWindow) \X (0..MaxWindow) : c[2] < c[1]}
        \cup {<<CHUNK_SIZE, CHUNK_OVERLAP>>}

NoProcessCall == [text |-> <<>>, size |-> CHUNK_SIZE, overlap |-> CHUNK_OVERLAP,
                  returned |-> FALSE, ret |-> <<>>]

\* a short text under any configuration, or the test's text under config.py's
ChunkInit ==
    \E t \in ChunkTexts \cup {LongText}, c \in ChunkConfigs :
        /\ t = LongText => c = <<CHUNK_SIZE, CHUNK_OVERLAP>>
        /\ tp = [text |-> t, size |-> c[1], overlap |-> c[2], returned |-> FALSE, ret |-> <<>>]

Process ==
    /\ ~tp.returned
    /\ tp' = [tp EXCEPT !.returned = TRUE, !.ret = process(tp.text, tp.size, tp.overlap)]
    /\ UNCHANGED <<store_vars, conc_vars, app_vars>>

ChunkNext == Process

\* ------------------------------------------------------------------ LectureProcessor
MaxImages == 1    \* most images one PDF holds
MaxRemote == 2    \* no document is ingested that would take the remote collection past this

\* similarity_search(..., k=4) in QAWorkflow._retrieve
RETRIEVE_K == 4

\* no document is ingested that would take the in-memory store past this:
\* one entry more than a retrieval returns
MaxEntries == RETRIEVE_K + 1

END == "__end__"

\* the text of a PDF: blank, one word, a word with a trailing blank
PdfTexts == {<<" ">>, <<"a">>, <<"b", " ">>}

Descriptions == {<<"d">>}

Questions == {<<"q">>}

\* what the embedding API returns for one text
EmbedVectors == {<<1, 0>>, <<1, 1>>}

\* what the chat model returns: a message with content, with or without
\* surrounding whitespace, or an object without a content attribute
Responses == {[content |-> <<"o", "k">>], [content |-> <<" ", "o", "k", "\n">>],
              [str |-> <<"r">>]}

\* dict.update
update(d, u) == [k \in DOMAIN d \cup DOMAIN u |-> IF k \in DOMAIN u THEN u[k] ELSE d[k]]

NoRun == [op |-> "none", outcome |-> "none", raised_in |-> "", ran |-> <<>>,
          before |-> <<>>, used |-> "none", embed_calls |-> <<>>, embedded |-> <<>>,
          add_calls |-> 0, hits |-> <<>>, prompt |-> <<>>, response |-> <<>>, ret |-> <<>>]

\* the contents of both stores
Contents == <<texts, embeddings, remote.objects>>

NewRun(op) == [NoRun EXCEPT !.op = op, !.outcome = "running", !.before = Contents]

AppInit ==
    /\ pc = "new"
    /\ store = "none"
    /\ dw_store = "none"
    /\ qa_store = "none"
    /\ remote = [attempts |-> 0, up |-> FALSE, objects |-> <<>>]
    /\ state = <<>>
    /\ run = NoRun

get_vector_store_no_fallback(constructed) == "weaviate"

\* get_vector_store: the Weaviate store when its construction raised nothing,
\* else the in-memory store
get_vector_store(constructed) == IF constructed THEN "weaviate" ELSE "simple"

\* LectureProcessor.__init__
Construct ==
    /\ pc = "new"
    /\ \E constructed \in BOOLEAN :
        /\ remote' = [remote EXCEPT !.attempts = @ + 1, !.up = constructed]
        /\ store' = get_vector_store(constructed)
        /\ dw_store' = store'
        /\ qa_store' = store'
    /\ pc' = "idle"
    /\ UNCHANGED <<store_vars, tp, conc_vars, state, run>>

\* an exception raised in node pc leaves graph.invoke and run / ask; rn is
\* the history up to the raise
RaiseFrom(rn, where) ==
    /\ pc' = "idle"
    /\ run' = [rn EXCEPT !.outcome = "raised", !.raised_in = where,
                         !.ran = Append(@, pc)]

Raise(where) == RaiseFrom(run, where)

\* ------------------------------------------------------------------ DocumentWorkflow
doc_next(node) ==
    CASE node = "extract" -> "prepare"
      [] node = "prepare" -> "embed_store"
      [] node = "embed_store" -> END

\* LectureProcessor.process_document -> DocumentWorkflow.run: graph.invoke
ProcessDocument ==
    /\ pc = "idle"
    /\ pc' = "extract"
    /\ state' = [pdf_path |-> "lecture.pdf"]
    /\ run' = NewRun("process_document")
    /\ UNCHANGED <<store_vars, tp, conc_vars, store, dw_store, qa_store, remote>>

Size == IF dw_store = "simple" THEN Len(texts) ELSE Len(remote.objects)

Room == IF dw_store = "simple" THEN MaxEntries - Size ELSE MaxRemote - Size

_extract ==
    /\ pc = "extract"
    /\ \/ Raise("extract") /\ UNCHANGED state
       \/ \E text \in PdfTexts, n \in 0..MaxImages :
            /\ Len(process(text, CHUNK_SIZE, CHUNK_OVERLAP)) + n <= Room
            /\ state' = update(state, [text |-> text, images |-> [i \in 1..n |-> "image"]])
            /\ pc' = doc_next("extract")
            /\ run' = [run EXCEPT !.ran = Append(@, "extract")]
    /\ UNCHANGED <<store_vars, tp, conc_vars, store, dw_store, qa_store, remote>>

_prepare ==
    /\ pc = "prepare"
    /\ LET chunks == process(state.text, CHUNK_SIZE, CHUNK_OVERLAP)
       IN  IF state.images # <<>>
           THEN \/ Raise("prepare") /\ UNCHANGED state
                \/ \E descriptions \in [1..Len(state.images) -> Descriptions] :
                     /\ state' = update(state, [chunks |-> chunks, descriptions |-> descriptions])
                     /\ pc' = doc_next("prepare")
                     /\ run' = [run EXCEPT !.ran = Append(@, "prepare")]
           ELSE /\ state' = update(state, [chunks |-> chunks, descriptions |-> <<>>])
                /\ pc' = doc_next("prepare")
                /\ run' = [run EXCEPT !.ran = Append(@, "prepare")]
    /\ UNCHANGED <<store_vars, tp, conc_vars, store, dw_store, qa_store, remote>>

combined_descriptions_first(st) == st.descriptions \o st.chunks

combined(st) == st.chunks \o st.descriptions

result(st) == [chunks |-> Len(st.chunks), images |-> Len(st.images)]

\* WeaviateVectorStore.add_texts(texts, embeddings): one object per text
objects_of(ts, es) == [i \in 1..Len(ts) |-> <<ts[i], es[i]>>]

Returned(rn, st, key) == [rn EXCEPT !.outcome = "returned", !.ret = st[key]]

\* embeds the texts one at a time and stores each before the next is embedded
_embed_store_per_item ==
    /\ pc = "embed_store"
    /\ dw_store = "simple"
    /\ combined(state) # <<>>
    /\ \E es \in [1..Len(combined(state)) -> EmbedVectors], j \in 0..Len(combined(state)) :
         /\ add_texts(SubSeq(combined(state), 1, j), SubSeq(es, 1, j))
         /\ IF j < Len(combined(state))
            THEN Raise("embed") /\ UNCHANGED state
            ELSE /\ state' = update(state, [result |-> result(state)])
                 /\ pc' = "idle"
                 /\ run' = Returned([run EXCEPT !.ran = Append(@, "embed_store"),
                                                !.used = dw_store,
                                                !.embed_calls = <<combined(state)>>,
                                                !.embedded = es, !.add_calls = 1],
                                    state', "result")
    /\ UNCHANGED <<call, added, supplied, paired, tp, conc_vars, store, dw_store, qa_store, remote>>

_embed_store ==
    /\ pc = "embed_store"
    /\ IF combined(state) # <<>>
       THEN \/ /\ RaiseFrom([run EXCEPT !.embed_calls = Append(@, combined(state))], "embed")
               /\ UNCHANGED <<state, texts, embeddings, remote>>
            \/ \E es \in [1..Len(combined(state)) -> EmbedVectors] :
                 LET rn == [run EXCEPT !.ran = Append(@, "embed_store"), !.used = dw_store,
                                       !.embed_calls = Append(@, combined(state)),
                                       !.embedded = es]
                     done == /\ state' = update(state, [result |-> result(state)])
                             /\ pc' = "idle"
                             /\ run' = Returned([rn EXCEPT !.add_calls = @ + 1],
                                                state', "result")
                 IN  IF dw_store = "simple"
                     THEN add_texts(combined(state), es) /\ done /\ UNCHANGED remote
                     ELSE \/ /\ remote' = [remote EXCEPT
                                             !.objects = @ \o objects_of(combined(state), es)]
                             /\ done
                             /\ UNCHANGED <<texts, embeddings>>
                          \* the batch fails: some of its objects may be written
                          \/ \E j \in 0..Len(combined(state)) :
                               /\ remote' = [remote EXCEPT !.objects =
                                               @ \o SubSeq(objects_of(combined(state), es), 1, j)]
                               /\ pc' = "idle"
                               /\ run' = [rn EXCEPT !.outcome = "raised",
                                                    !.raised_in = "add_texts",
                                                    !.add_calls = @ + 1]
                               /\ UNCHANGED <<state, texts, embeddings>>
       ELSE /\ state' = update(state, [result |-> result(state)])
            /\ pc' = "idle"
            /\ run' = Returned([run EXCEPT !.ran = Append(@, "embed_store")], state', "result")
            /\ UNCHANGED <<texts, embeddings, remote>>
    /\ UNCHANGED <<call, added, supplied, paired, tp, conc_vars, store, dw_store, qa_store>>

\* ------------------------------------------------------------------ QAWorkflow
qa_next(node) ==
    CASE node = "retrieve" -> "generate"
      [] node = "generate" -> END

\* LectureProcessor.ask_question -> QAWorkflow.ask: graph.invoke
AskQuestion ==
    /\ pc = "idle"
    /\ \E question \in Questions : state' = [question |-> question]
    /\ pc' = "retrieve"
    /\ run' = NewRun("ask_question")
    /\ UNCHANGED <<store_vars, tp, conc_vars, store, dw_store, qa_store, remote>>

\* "\n".join(ts)
RECURSIVE join_nl(_)
join_nl(ts) ==
    IF ts = <<>> THEN <<>>
    ELSE IF Len(ts) = 1 THEN ts[1]
    ELSE ts[1] \o <<"\n">> \o join_nl(Tail(ts))

RECURSIVE join_blank(_)
join_blank(ts) ==
    IF ts = <<>> THEN <<>>
    ELSE IF Len(ts) = 1 THEN ts[1]
    ELSE ts[1] \o <<" ">> \o join_blank(Tail(ts))

\* text for text, _ in results
texts_of(results) == [i \in 1..Len(results) |-> results[i][1]]

context_blank_joined(results) == join_blank(texts_of(results))

\* "\n".join(text for text, _ in results)
context_of(results) == join_nl(texts_of(results))

\* what a hybrid query with limit k may return: at most k objects of the
\* collection, each once, in the order the remote ranking gives them
RemoteHits(objects, k) ==
    {[i \in 1..Len(f) |-> objects[f[i]]] :
        f \in {g \in SeqsOf(1..Len(objects), 0..Min(k, Len(objects))) :
                  \A i, j \in 1..Len(g) : i # j => g[i] # g[j]}}

_retrieve ==
    /\ pc = "retrieve"
    /\ \/ Raise("retrieve") /\ UNCHANGED state
       \/ \E q_emb \in EmbedVectors :
            IF qa_store = "simple"
            THEN LET results == similarity_search(texts, embeddings, q_emb, RETRIEVE_K)
                 IN  /\ state' = update(state, [context |-> context_of(results)])
                     /\ run' = [run EXCEPT !.ran = Append(@, "retrieve"), !.used = qa_store,
                                           !.embed_calls = Append(@, <<state.question>>),
                                           !.embedded = <<q_emb>>, !.hits = results]
                     /\ pc' = qa_next("retrieve")
            ELSE \E hits \in RemoteHits(remote.objects, RETRIEVE_K) :
                     /\ state' = update(state, [context |-> context_of(hits)])
                     /\ run' = [run EXCEPT !.ran = Append(@, "retrieve"), !.used = qa_store,
                                           !.embed_calls = Append(@, <<state.question>>),
                                           !.embedded = <<q_emb>>, !.hits = hits]
                     /\ pc' = qa_next("retrieve")
    /\ UNCHANGED <<store_vars, tp, conc_vars, store, dw_store, qa_store, remote>>

PromptHead == <<"Answer the question based on the context below.", "\n", "Context:", "\n">>

PromptMid == <<"\n", "\n", "Question: ">>

\* getattr(response, "content", str(response))
answer_of(response) ==
    IF "content" \in DOMAIN response THEN response.content ELSE response.str

_generate ==
    /\ pc = "generate"
    /\ LET prompt == PromptHead \o state.context \o PromptMid \o state.question
       IN  \/ /\ RaiseFrom([run EXCEPT !.prompt = prompt], "generate")
              /\ UNCHANGED state
           \/ \E response \in Responses :
                /\ state' = update(state, [answer |-> answer_of(response)])
                /\ pc' = "idle"
                /\ run' = Returned([run EXCEPT !.ran = Append(@, "generate"),
                                               !.prompt = prompt, !.response = response],
                                   state', "answer")
    /\ UNCHANGED <<store_vars, tp, conc_vars, store, dw_store, qa_store, remote>>

\* ------------------------------------------------------------------ threads on one store
MaxCalls == 3     \* add_texts calls begun by the threads, all together

\* the threads that share the store
Callers == {1, 2}

\* the lists handed to one concurrent add_texts call hold this many entries
CallerBatches == {1}

\* the vector the embedder gives a text: the same text, the same vector
embed_one(t) == IF t = <<"a">> THEN <<1, 0>> ELSE <<1, 1>>

IdleFrame == [op |-> "none", pc |-> "idle", ts |-> <<>>, es |-> <<>>, q |-> <<>>, k |-> 0,
              i |-> 0, scores |-> <<>>, lens |-> <<>>, ret |-> <<>>]

\* adds: add_texts calls begun; overlapped: some add_texts call began while
\* another was between its two extends
NoHist == [adds |-> 0, overlapped |-> FALSE]

\* some other thread is in add_texts, after texts.extend and before
\* embeddings.extend
MidAdd(c) == \E o \in Callers \ {c} : callers[o].pc = "extend_embeddings"

add_texts_order_swapped == <<"embeddings", "texts">>

\* the order of the two statements of add_texts
add_texts_order == <<"texts", "embeddings">>

\* self.<name>.extend(xs), one atomic list operation
extend(name, ts, es) ==
    IF name = "texts"
    THEN texts' = texts \o ts /\ UNCHANGED embeddings
    ELSE embeddings' = embeddings \o es /\ UNCHANGED texts

\* thread c calls add_texts(ts, es) and runs its first statement
ExtendTexts(c) ==
    /\ callers[c].pc = "idle"
    /\ hist.adds < MaxCalls
    /\ \E n \in CallerBatches : \E ts \in [1..n -> Texts] :
         LET es == [i \in 1..n |-> embed_one(ts[i])]
         IN
         /\ extend(add_texts_order[1], ts, es)
         /\ callers' = [callers EXCEPT ![c] = [IdleFrame EXCEPT !.op = "add_texts",
                                                  !.pc = "extend_embeddings",
                                                  !.ts = ts, !.es = es]]
         /\ supplied' = supplied \o zip(ts, es)
    /\ hist' = [hist EXCEPT !.adds = @ + 1, !.overlapped = @ \/ MidAdd(c)]
    /\ UNCHANGED <<call, added, paired, tp, app_vars>>

\* thread c runs the second statement of add_texts and returns
ExtendEmbeddings(c) ==
    /\ callers[c].pc = "extend_embeddings"
    /\ extend(add_texts_order[2], callers[c].ts, callers[c].es)
    /\ callers' = [callers EXCEPT ![c] = IdleFrame]
    /\ UNCHANGED <<call, added, supplied, paired, hist, tp, app_vars>>

\* thread c calls similarity_search(q, k): if not self.embeddings: return []
CheckEmpty(c) ==
    /\ callers[c].pc = "idle"
    /\ \E q \in EmbedVectors, k \in {1, RETRIEVE_K} :
         callers' = [callers EXCEPT ![c] =
             IF embeddings = <<>>
             THEN [IdleFrame EXCEPT !.op = "similarity_search",
                                    !.lens = <<Len(texts), Len(embeddings)>>]
             ELSE [IdleFrame EXCEPT !.op = "similarity_search", !.q = q, !.k = k,
                                    !.pc = "zip"]]
    /\ UNCHANGED <<store_vars, hist, tp, app_vars>>

\* one step of for text, emb in zip(self.texts, self.embeddings): the next
\* element of each list as the list is now, and the loop body; the loop ends
\* when either list has no next element
ZipNext(c) ==
    /\ callers[c].pc = "zip"
    /\ LET f == callers[c]
           n == f.i + 1
       IN  callers' = [callers EXCEPT ![c] =
               IF n <= Len(texts) /\ n <= Len(embeddings)
               THEN [f EXCEPT !.i = n,
                              !.scores = Append(@, <<texts[n], cosine(f.q, embeddings[n])>>)]
               ELSE [f EXCEPT !.pc = "sort", !.lens = <<Len(texts), Len(embeddings)>>]]
    /\ UNCHANGED <<store_vars, hist, tp, app_vars>>

\* scores.sort(key=lambda x: x[1], reverse=True); return scores[:k]
SortReturn(c) ==
    /\ callers[c].pc = "sort"
    /\ callers' = [callers EXCEPT ![c] =
           [IdleFrame EXCEPT !.op = "similarity_search", !.lens = callers[c].lens,
                             !.ret = slice_to(sort_desc(callers[c].scores), callers[c].k)]]
    /\ UNCHANGED <<store_vars, hist, tp, app_vars>>

\* ------------------------------------------------------------------ calls on a store
StoreInit ==
    /\ texts = <<>>
    /\ embeddings = <<>>
    /\ call = [op |-> "__init__"]
    /\ added = None
    /\ supplied = <<>>
    /\ paired = TRUE
    /\ callers = [c \in Callers |-> IdleFrame]
    /\ hist = NoHist

CallAdd(ts, es) ==
    /\ Len(texts) + Len(ts) <= MaxStore
    /\ Len(embeddings) + Len(es) <= MaxStore
    /\ add_texts(ts, es)
    /\ call' = [op |-> "add_texts", texts |-> ts, embeddings |-> es]
    /\ added' = IF Len(ts) = 1 /\ Len(es) = 1 THEN <<ts[1], es[1]>> ELSE None
    /\ supplied' = supplied \o zip(ts, es)
    /\ paired' = (paired /\ Len(ts) = Len(es))
    /\ UNCHANGED <<tp, conc_vars, app_vars>>

\* add_texts with parallel lists, as _embed_store calls it
AddTexts ==
    \E ts \in SeqsOf(Texts, BatchSizes), es \in SeqsOf(Vectors, BatchSizes) :
        Len(ts) = Len(es) /\ CallAdd(ts, es)

\* add_texts with any two lists: the method validates nothing
AddTextsAny ==
    \E ts \in SeqsOf(Texts, BatchSizes), es \in SeqsOf(Vectors, BatchSizes) :
        CallAdd(ts, es)

Search ==
    \E q \in Vectors, k \in Ks :
        /\ call' = [op |-> "similarity_search", q |-> q, k |-> k, after |-> added,
                    ret |-> similarity_search(texts, embeddings, q, k)]
        /\ added' = None
        /\ UNCHANGED <<texts, embeddings, supplied, paired, tp, conc_vars, app_vars>>

\* ------------------------------------------------------------------ specifications
\* a store under add_texts calls with parallel lists and similarity_search calls
StoreNext == AddTexts \/ Search

StoreOnlyInit == StoreInit /\ tp = NoProcessCall /\ AppInit

SpecStore == StoreOnlyInit /\ [][StoreNext]_vars

\* a store under add_texts calls with any two lists
AnyAddNext == AddTextsAny

SpecAnyAdd == StoreOnlyInit /\ [][AnyAddNext]_vars

\* one LectureProcessor: its construction, then process_document and
\* ask_question calls one after the other, each stepping through its graph
Init == StoreInit /\ tp = NoProcessCall /\ AppInit

Next ==
    \/ Construct
    \/ ProcessDocument
    \/ _extract
    \/ _prepare
    \/ _embed_store
    \/ AskQuestion
    \/ _retrieve
    \/ _generate

Spec == Init /\ [][Next]_vars

\* one TextProcessor.process call on any text under any configuration
ChunkOnlyInit == StoreInit /\ ChunkInit /\ AppInit

SpecChunk == ChunkOnlyInit /\ [][ChunkNext]_vars

\* threads calling add_texts and similarity_search on one store with no lock:
\* any thread may take its next step at any time
ThreadsNext ==
    \E c \in Callers :
        \/ ExtendTexts(c)
        \/ ExtendEmbeddings(c)
        \/ CheckEmpty(c)
        \/ ZipNext(c)
        \/ SortReturn(c)

ThreadsInit == StoreInit /\ tp = NoProcessCall /\ AppInit

SpecThreads == ThreadsInit /\ [][ThreadsNext]_vars

\* ------------------------------------------------------------------ C1
\* C1 as stated: after any sequence of add_texts calls, texts and embeddings
\* have the same length and embeddings[i] is the vector that was supplied
\* together with texts[i].
C1_SameLengthCoIndexed ==
    /\ Len(texts) = Len(embeddings)
    /\ Len(supplied) = Len(texts)
    /\ \A i \in 1..Len(texts) : supplied[i] = <<texts[i], embeddings[i]>>

\* C1 amended: after any sequence of add_texts calls each of which was given
\* as many embeddings as texts, texts and embeddings have the same length and
\* embeddings[i] is the vector that was supplied together with texts[i].
C1_PairedCallsCoIndexed == paired => C1_SameLengthCoIndexed

C1_Witness ==
    /\ paired
    /\ call.op = "add_texts"
    /\ Len(call.texts) = 1
    /\ Len(texts) = 2
    /\ texts[1] # texts[2]
    /\ embeddings[1] # embeddings[2]

\* ------------------------------------------------------------------ C2
IsSearch == call.op = "similarity_search"

\* the results are entries of the store, each at most once, with the score
\* of its vector against q, and no entry left out scores higher than one
\* returned
TopOfStore(r, q) ==
    \E f \in [1..Len(r) -> 1..Len(embeddings)] :
        /\ \A i, j \in 1..Len(r) : i # j => f[i] # f[j]
        /\ \A i \in 1..Len(r) : r[i] = <<texts[f[i]], cosine(q, embeddings[f[i]])>>
        /\ \A j \in 1..Len(embeddings) :
              (\A i \in 1..Len(r) : f[i] # j) =>
                  \A i \in 1..Len(r) : ~ScoreLess(r[i][2], cosine(q, embeddings[j]))

\* C2: similarity_search(q, k) returns exactly min(k, store size) (text, score)
\* pairs, in non-increasing order of score, entries of the store none of which
\* scores lower than an entry left out; on an empty store it returns nothing.
C2_TopKSorted ==
    IsSearch =>
        /\ Len(call.ret) = Min(call.k, Len(texts))
        /\ \A i \in 1..(Len(call.ret) - 1) : ~ScoreLess(call.ret[i][2], call.ret[i + 1][2])
        /\ TopOfStore(call.ret, call.q)
        /\ (texts = <<>> => call.ret = <<>>)

\* the second entry outranks the first and k = 1 leaves the first out
C2_Witness ==
    /\ IsSearch
    /\ call.k = 1
    /\ Len(texts) = 2
    /\ texts[1] # texts[2]
    /\ ScoreLess(cosine(call.q, embeddings[1]), cosine(call.q, embeddings[2]))
    /\ Len(call.ret) = 1
    /\ call.ret[1][1] = texts[2]

\* ------------------------------------------------------------------ C3
\* similarity_search(e, 1) right after add_texts([t], [e])
IsRoundTrip == IsSearch /\ call.after # None /\ call.q = call.after[2] /\ call.k = 1

IsZeroVector(v) == \A i \in 1..Len(v) : v[i] = 0

\* C3 as stated: on any store, add_texts([t], [e]) followed by
\* similarity_search(e, 1) returns t as the only result, with similarity
\* approximately 1.0.
C3_RoundTripAnyStore ==
    IsRoundTrip =>
        /\ Len(call.ret) = 1
        /\ call.ret[1][1] = call.after[1]
        /\ ApproxOne(call.ret[1][2])

\* C3 amended: add_texts([t], [e]) followed by similarity_search(e, 1) returns
\* exactly one result; its similarity is approximately 1.0 when e is not the
\* zero vector; and it is t when every entry stored before scores strictly
\* lower against e than e itself does, as on an empty store.
C3_RoundTrip ==
    IsRoundTrip =>
        LET e == call.after[2]
            n == Len(embeddings)
        IN  /\ Len(call.ret) = 1
            /\ ~IsZeroVector(e) => ApproxOne(call.ret[1][2])
            /\ (\A i \in 1..(n - 1) : ScoreLess(cosine(e, embeddings[i]), cosine(e, e)))
                  => call.ret[1][1] = call.after[1]

\* the pair is added to a store that holds another text and comes back first
C3_Witness ==
    /\ IsRoundTrip
    /\ Len(texts) = 2
    /\ texts[1] # call.after[1]
    /\ ~IsZeroVector(embeddings[1])
    /\ Len(call.ret) = 1
    /\ call.ret[1][1] = call.after[1]
    /\ ApproxOne(call.ret[1][2])

\* ------------------------------------------------------------------ C4
\* C4: no score is a division error, every score against a zero query is 0.0,
\* and when the whole store is returned the score of every zero entry is 0.0.
C4_ZeroVectorScoresZero ==
    IsSearch =>
        /\ \A i \in 1..Len(call.ret) : ~call.ret[i][2].nan
        /\ IsZeroVector(call.q) => \A i \in 1..Len(call.ret) : IsZero(call.ret[i][2])
        /\ call.k >= Len(texts) =>
              \E f \in [1..Len(call.ret) -> 1..Len(embeddings)] :
                  /\ \A i, j \in 1..Len(call.ret) : i # j => f[i] # f[j]
                  /\ \A i \in 1..Len(call.ret) :
                        /\ call.ret[i][1] = texts[f[i]]
                        /\ IsZeroVector(embeddings[f[i]]) => IsZero(call.ret[i][2])
                        /\ ~IsZero(call.ret[i][2]) => ~IsZeroVector(embeddings[f[i]])

\* a zero entry and a non-zero entry are scored against a non-zero query
C4_Witness ==
    /\ IsSearch
    /\ ~IsZeroVector(call.q)
    /\ Len(embeddings) = 2
    /\ IsZeroVector(embeddings[1])
    /\ Len(call.ret) = 2
    /\ ~IsZero(call.ret[1][2])
    /\ IsZero(call.ret[2][2])

\* ------------------------------------------------------------------ C9
\* the last o characters of c are the first o characters of d
OverlapBy(c, d, o) ==
    /\ Len(c) >= o
    /\ Len(d) >= o
    /\ SubSeq(c, Len(c) - o + 1, Len(c)) = SubSeq(d, 1, o)

\* the chunks joined, each but the first without its first o characters
RECURSIVE Reconstruct(_, _)
Reconstruct(cs, o) ==
    IF cs = <<>> THEN <<>>
    ELSE IF Len(cs) = 1 THEN cs[1]
    ELSE Reconstruct(SubSeq(cs, 1, Len(cs) - 1), o) \o SubSeq(cs[Len(cs)], o + 1, Len(cs[Len(cs)]))

Chunked(cs, t, w, o) ==
    /\ \A i \in 1..Len(cs) : Len(cs[i]) <= w
    /\ \A i \in 1..(Len(cs) - 2) : OverlapBy(cs[i], cs[i + 1], o)
    /\ Reconstruct(cs, o) = t

TestExample ==
    (tp.text = LongText /\ tp.size = 1000 /\ tp.overlap = 200) =>
        /\ Len(tp.ret) = 2
        /\ \A i \in 1..2 : tp.ret[i] # <<>>

\* C9 as stated: for every non-empty text, window W and overlap O < W the
\* chunks of process are at most W long, consecutive chunks overlap by exactly
\* O characters (except possibly the final chunk), the chunks without their
\* overlaps give the text back, and 1500 equal characters under 1000/200 give
\* exactly 2 non-empty chunks.
C9_ChunksReconstruct ==
    (tp.returned /\ tp.text # <<>>) =>
        Chunked(tp.ret, tp.text, tp.size, tp.overlap) /\ TestExample

\* no window of the text begins or ends with whitespace
CleanWindows ==
    \A c \in {chunk_text(tp.text, tp.size, tp.overlap)[i] :
                 i \in 1..Len(chunk_text(tp.text, tp.size, tp.overlap))} :
        c # <<>> /\ c[1] \notin Whitespace /\ c[Len(c)] \notin Whitespace

\* C9 amended: every chunk of process is non-empty and at most W long; and
\* for a non-empty text no window of which begins or ends with whitespace,
\* consecutive chunks overlap by exactly O characters (except possibly the
\* final chunk) and the chunks without their overlaps give the text back;
\* 1500 equal characters under 1000/200 give exactly 2 non-empty chunks.
C9_CleanChunksReconstruct ==
    tp.returned =>
        /\ \A i \in 1..Len(tp.ret) : tp.ret[i] # <<>> /\ Len(tp.ret[i]) <= tp.size
        /\ (tp.text # <<>> /\ CleanWindows) =>
              Chunked(tp.ret, tp.text, tp.size, tp.overlap)
        /\ TestExample

\* three different chunks: the first two are a pair that is not the last
C9_Witness ==
    /\ tp.returned
    /\ CleanWindows
    /\ tp.overlap > 0
    /\ Len(tp.ret) >= 3
    /\ tp.ret[1] # tp.ret[2]

C9_WitnessExample == tp.returned /\ tp.text = LongText /\ tp.size = 1000 /\ Len(tp.ret) = 2

\* ------------------------------------------------------------------ C5
\* C5: once LectureProcessor is constructed the remote store has been
\* attempted exactly once, the store is the remote one if that attempt
\* succeeded and the in-memory one if it failed, both workflows hold that
\* store, every call on a store is on it, and the other store is never written.
C5_StoreSelectedOnce ==
    /\ pc = "new" => remote.attempts = 0 /\ store = "none"
    /\ pc # "new" =>
         /\ remote.attempts = 1
         /\ store = (IF remote.up THEN "weaviate" ELSE "simple")
         /\ dw_store = store
         /\ qa_store = store
         /\ run.used \in {"none", store}
         /\ store = "simple" => remote.objects = <<>>
         /\ store = "weaviate" => texts = <<>> /\ embeddings = <<>>

\* construction failed, a document was ingested into the in-memory store and
\* a question was answered from it
C5_Witness ==
    /\ pc = "idle"
    /\ ~remote.up
    /\ store = "simple"
    /\ texts # <<>>
    /\ run.op = "ask_question"
    /\ run.outcome = "returned"
    /\ run.used = "simple"

\* ------------------------------------------------------------------ C6
Stages == <<"extract", "prepare", "embed_store">>

IsDocumentRun == run.op = "process_document"

\* C6: the stages of a run execute in the order extract, prepare, embed_store,
\* each once; a run that returns has executed all three; when the extract
\* stage, the prepare stage or the embedding call raises, the raising stage is
\* the last one executed, the call is over with the exception, and both
\* stores hold what they held before the run.
C6_LinearNoPartialResult ==
    IsDocumentRun =>
        /\ Len(run.ran) <= 3
        /\ run.ran = SubSeq(Stages, 1, Len(run.ran))
        /\ run.outcome = "running" => pc = Stages[Len(run.ran) + 1]
        /\ run.outcome = "returned" => pc = "idle" /\ run.ran = Stages
        /\ run.outcome = "raised" =>
             /\ pc = "idle"
             /\ run.raised_in \in {"extract", "prepare", "embed"} => Contents = run.before
             /\ run.raised_in = "extract" => run.ran = <<"extract">>
             /\ run.raised_in = "prepare" => run.ran = <<"extract", "prepare">>
             /\ run.raised_in \in {"embed", "add_texts"} => run.ran = Stages

\* the embedding call raises in a run with two texts to embed, on a store
\* that already holds an entry
C6_Witness ==
    /\ IsDocumentRun
    /\ run.outcome = "raised"
    /\ run.raised_in = "embed"
    /\ Len(combined(state)) = 2
    /\ texts # <<>>

\* ------------------------------------------------------------------ C7
IsAnswered == run.op = "ask_question" /\ run.outcome = "returned"

\* C7: the string ask returns has no leading or trailing whitespace and is the
\* response's content with such whitespace removed.
C7_AnswerTrimmed ==
    (IsAnswered /\ "content" \in DOMAIN run.response) =>
        /\ run.ret = strip(run.response.content)
        /\ run.ret # <<>> => run.ret[1] \notin Whitespace /\ run.ret[Len(run.ret)] \notin Whitespace

\* ------------------------------------------------------------------ C8
\* the part of the prompt between "Context:\n" and "\n\nQuestion: "
ContextInPrompt ==
    SubSeq(run.prompt, Len(PromptHead) + 1,
           Len(run.prompt) - Len(PromptMid) - Len(state.question))

RECURSIVE NewlineJoined(_)
NewlineJoined(ts) ==
    IF ts = <<>> THEN <<>>
    ELSE IF Len(ts) = 1 THEN ts[1]
    ELSE NewlineJoined(SubSeq(ts, 1, Len(ts) - 1)) \o <<"\n">> \o ts[Len(ts)]

\* r ranks the top entries of the in-memory store against q
IsTopRanking(r, q) ==
    /\ Len(r) = Min(RETRIEVE_K, Len(texts))
    /\ \A i \in 1..(Len(r) - 1) : ~ScoreLess(r[i][2], r[i + 1][2])
    /\ TopOfStore(r, q)

\* C8: the context in the prompt is the newline-joined texts of the top 4
\* matches for the question in rank order, fewer when the store holds fewer;
\* with one chunk in the store the context is that chunk.
C8_ContextIsTopFour ==
    (run.op = "ask_question" /\ run.prompt # <<>>) =>
        /\ Len(run.hits) <= RETRIEVE_K
        /\ ContextInPrompt = NewlineJoined([i \in 1..Len(run.hits) |-> run.hits[i][1]])
        /\ run.prompt = PromptHead \o ContextInPrompt \o PromptMid \o state.question
        /\ qa_store = "simple" =>
             /\ IsTopRanking(run.hits, run.embedded[1])
             /\ Len(texts) = 1 => ContextInPrompt = texts[1]
        /\ qa_store = "weaviate" =>
             /\ \A i \in 1..Len(run.hits) : \E j \in 1..Len(remote.objects) :
                    run.hits[i] = remote.objects[j]
             /\ Len(remote.objects) = 1 /\ run.hits # <<>> => ContextInPrompt = remote.objects[1][1]

\* more than four entries, and the entry stored last ranks first
C8_Witness ==
    /\ run.op = "ask_question"
    /\ run.prompt # <<>>
    /\ qa_store = "simple"
    /\ Len(texts) = RETRIEVE_K + 1
    /\ Len(run.hits) = RETRIEVE_K
    /\ run.hits[1][1] = texts[Len(texts)]
    /\ run.hits[1][1] # texts[1]
    /\ ScoreLess(run.hits[RETRIEVE_K][2], run.hits[1][2])

\* ------------------------------------------------------------------ C10
IsIngested == IsDocumentRun /\ run.outcome = "returned"

\* the (text, vector) entries of the store the workflows hold
Entries == IF store = "simple" THEN zip(texts, embeddings) ELSE remote.objects

EntriesBefore ==
    IF store = "simple" THEN zip(run.before[1], run.before[2]) ELSE run.before[3]

\* C10: a run that returns has, when chunks + descriptions is non-empty,
\* called the embedder exactly once, on that list, and appended one entry per
\* text after the entries the store held, chunks first, each with the vector
\* the embedder gave it; when the list is empty it has called neither the
\* embedder nor the store and the store is unchanged; its result is
\* {chunks: number of chunks, images: number of images}.
C10_EmbedStoreAppends ==
    IsIngested =>
        LET cs == state.chunks
            ds == state.descriptions
            new == [i \in 1..(Len(cs) + Len(ds)) |->
                       <<IF i <= Len(cs) THEN cs[i] ELSE ds[i - Len(cs)], run.embedded[i]>>]
        IN  /\ Len(cs) + Len(ds) > 0 =>
                 /\ run.embed_calls = <<cs \o ds>>
                 /\ run.add_calls = 1
                 /\ Len(run.embedded) = Len(cs) + Len(ds)
                 /\ Len(Entries) = Len(EntriesBefore) + Len(cs) + Len(ds)
                 /\ Entries = EntriesBefore \o new
                 /\ store = "simple" => Len(texts) = Len(embeddings)
            /\ Len(cs) + Len(ds) = 0 =>
                 /\ run.embed_calls = <<>>
                 /\ run.add_calls = 0
                 /\ Contents = run.before
            /\ run.ret = [chunks |-> Len(cs), images |-> Len(state.images)]
            /\ Len(ds) = Len(state.images)

\* a chunk and a description are appended, in that order, to a store that
\* holds entries
C10_Witness ==
    /\ IsIngested
    /\ store = "simple"
    /\ Len(state.chunks) = 1
    /\ Len(state.descriptions) = 1
    /\ Len(run.before[1]) >= 1
    /\ texts[Len(texts) - 1] = state.chunks[1]
    /\ texts[Len(texts)] = state.descriptions[1]
    /\ embeddings[Len(texts) - 1] # embeddings[Len(texts)]

\* nothing to embed: a blank text and no image
C10_WitnessEmpty ==
    /\ IsIngested
    /\ combined(state) = <<>>
    /\ run.ret = [chunks |-> 0, images |-> 0]

\* ------------------------------------------------------------------ C11
\* some store entry pairs a text with a vector no add_texts call supplied
\* with that text
Mispaired ==
    \E i \in 1..Min(Len(texts), Len(embeddings)) :
        \A j \in 1..Len(supplied) : supplied[j] # <<texts[i], embeddings[i]>>

\* the texts that the add_texts calls now between their two statements have
\* put in the store
RECURSIVE PendingTexts(_)
PendingTexts(cs) ==
    IF cs = {} THEN 0
    ELSE LET c == CHOOSE x \in cs : TRUE
         IN  (IF callers[c].pc = "extend_embeddings" THEN Len(callers[c].ts) ELSE 0)
             + PendingTexts(cs \ {c})

\* the last call of thread c was a similarity_search whose loop ended on
\* lists of different lengths
SawUnequalLists(c) ==
    /\ callers[c].op = "similarity_search"
    /\ Len(callers[c].lens) = 2
    /\ callers[c].lens[1] # callers[c].lens[2]

\* C11: threads that call add_texts and similarity_search on one store with
\* no lock reach inconsistent states (C11_Witness), and it is the
\* interleaving that does it: the texts list is ahead of the embeddings list
\* by exactly the texts of the add_texts calls that are between their two
\* statements, so any step of another thread taken there sees lists of
\* different lengths; and a text is paired with a vector supplied for another
\* text only after an add_texts call began while another was between its
\* two statements.
C11_InconsistentByInterleaving ==
    /\ Len(embeddings) <= Len(texts)
    /\ Len(texts) - Len(embeddings) = PendingTexts(Callers)
    /\ Mispaired => hist.overlapped
    /\ \A c \in Callers : SawUnequalLists(c) => callers[c].lens[1] > callers[c].lens[2]

\* every call has returned; two add_texts calls, each given a text with its
\* own vector, have left a text paired with the other's vector; and a
\* similarity_search that ran meanwhile found the lists of different lengths
C11_Witness ==
    /\ \A c \in Callers : callers[c].pc = "idle"
    /\ Len(texts) = Len(embeddings)
    /\ Mispaired
    /\ \E i \in 1..Len(texts) : embeddings[i] # embed_one(texts[i])
    /\ \E c \in Callers : SawUnequalLists(c) /\ callers[c].ret # <<>>

\* a similarity_search in progress has scored a text against the vector
\* supplied for another text, while an add_texts call is between its two
\* statements
C11_WitnessMidCall ==
    \E c \in Callers :
        /\ callers[c].pc = "zip"
        /\ MidAdd(c)
        /\ \E i \in 1..Len(callers[c].scores) :
             callers[c].scores[i][2] # cosine(callers[c].q, embed_one(callers[c].scores[i][1]))

====
